---- MODULE Spec2Model ----
(***************************************************************************)
(* FeaturedWorkCarousel (src/carousel.js): slide navigation by key and     *)
(* click, one decorative visualization per slide container (3D-backed or   *)
(* 2D fallback), each with its own requestAnimationFrame chain, a window   *)
(* resize listener and (3D only) click-and-drag rotation, and destroy().   *)
(*                                                                         *)
(* Angles are kept in thousandths of a radian, so 0.002 is 2, 0.003 is 3   *)
(* and 0.01 is 10.  A missing value (null / undefined) of a handle is 0,   *)
(* which is falsy in the source as well; request ids start at 1.           *)
(***************************************************************************)
EXTENDS Integers, FiniteSets, Sequences, TLC

\* ---------------------------------------------------------------- bounds
MaxSlides == 3      \* slide panels in the markup: 0..MaxSlides
MaxEvents == 3      \* events that move the state on: navigation calls,
                    \* animation frames, mousedown events, mousemove
                    \* events of a drag and layout changes, all together
MaxCoord == 1       \* pointer positions: x + y <= MaxCoord
MaxDim == 1         \* container width and height: 0..MaxDim

\* ------------------------------------------------------ program constants
NumOrdinals == 3    \* for (let i = 1; i <= 3; i++)
RotStepX == 2       \* pointsMesh.rotation.x += 0.002
RotStepY == 3       \* pointsMesh.rotation.y += 0.003
DragScale == 10     \* deltaX * 0.01, deltaY * 0.01
Rot2DStep == 10     \* rotation += 0.01
NaN == -1           \* the value of x % 0: no slide index equals it

Ordinals == 1..NumOrdinals
Keys == {"ArrowLeft", "ArrowRight", "Enter"}
Sizes == [w : 0..MaxDim, h : 0..MaxDim]
Positions == {p \in [x : 0..MaxCoord, y : 0..MaxCoord] : p.x + p.y <= MaxCoord}

VARIABLES
    phase,                  \* "loading": DOMContentLoaded not yet delivered; "constructed"
    slides,                 \* slide index -> its classList has 'active'
    currentSlide,           \* this.currentSlide
    prevBtn, nextBtn,       \* the control is in the markup (querySelector is not null)
    clickListeners,         \* controls that carry a click listener of the carousel
    keyboardHandler,        \* this.keyboardHandler: 0 (null) or the handler
    keydownListeners,       \* keydown listeners registered on document
    containers,             \* ordinals whose scatterplot-container-i is in the markup
    threeDefined,           \* typeof THREE !== 'undefined'
    clientSize,             \* container i's clientWidth / clientHeight
    scatterplots,           \* this.scatterplots: ordinal -> returned handle
    animationId,            \* the closure variable animationId of visualization i
    rotation,               \* the closure variable rotation of a 2D visualization
    meshRotation,           \* pointsMesh.rotation of a 3D visualization
    surface,                \* canvas.width/height, or the renderer's size
    cameraAspect,           \* camera.aspect of a 3D visualization
    isDragging,             \* the closure variable isDragging
    previousMousePosition,  \* the closure variable previousMousePosition
    mouseListeners,         \* containers that carry the four mouse listeners
    rafCallbacks,           \* the browser's pending animation-frame callbacks
    nextRafId,              \* the id the next requestAnimationFrame returns
    resizeListeners,        \* resize listeners registered on window, by owner
    dirSum,                 \* history: sum of the directions of the calls made
    updated,                \* history: updateSlides has run
    destroyed,              \* history: destroy() has been called
    lastWasDown,            \* history: the last of mousedown / mouseup /
                            \* mouseleave on container i was a mousedown
    lastPointer,            \* history: where the last mousedown, or mousemove
                            \* of a drag, on container i was
    eventCount              \* history: the events counted by MaxEvents

navVars == <<slides, currentSlide, clickListeners, keyboardHandler,
             keydownListeners, dirSum, updated>>
markupVars == <<prevBtn, nextBtn, containers, threeDefined>>
vizVars == <<scatterplots, animationId, rotation, meshRotation, surface,
             cameraAspect, rafCallbacks, nextRafId, resizeListeners,
             mouseListeners>>
dragVars == <<isDragging, previousMousePosition, lastWasDown, lastPointer>>
vars == <<phase, slides, currentSlide, prevBtn, nextBtn, clickListeners,
          keyboardHandler, keydownListeners, containers, threeDefined,
          clientSize, scatterplots, animationId, rotation, meshRotation,
          surface, cameraAspect, isDragging, previousMousePosition,
          mouseListeners, rafCallbacks, nextRafId, resizeListeners, dirSum,
          updated, destroyed, lastWasDown, lastPointer, eventCount>>

\* ------------------------------------------------------------ arithmetic
\* The JavaScript remainder a % n: the sign of the dividend, NaN for n = 0.
JSRem(a, n) ==
    IF n = 0 THEN NaN
    ELSE IF a >= 0 THEN a % n ELSE 0 - ((0 - a) % n)

RECURSIVE GCD(_, _)
GCD(a, b) == IF b = 0 THEN a ELSE GCD(b, a % b)

\* The JavaScript quotient w / h of two non-negative integers, as a fraction
\* in lowest terms: <<0, 0>> is NaN (0 / 0) and <<1, 0>> is Infinity (w / 0).
Quotient(w, h) ==
    IF h = 0 THEN (IF w = 0 THEN <<0, 0>> ELSE <<1, 0>>)
    ELSE <<w \div GCD(w, h), h \div GCD(w, h)>>

SlideCount == Cardinality(DOMAIN slides)

\* ------------------------------------------------------------ navigation
PrevSlideIndexNoWrap(cur, n) == JSRem(cur - 1, n)

NextSlideIndex(cur, n) == JSRem(cur + 1, n)

PrevSlideIndex(cur, n) == JSRem(cur - 1 + n, n)

updateSlides(cur) == [index \in DOMAIN slides |-> index = cur]

NavState == [currentSlide |-> currentSlide, slides |-> slides, dir |-> 0]

nextSlide ==
    LET cur == NextSlideIndex(currentSlide, SlideCount)
    IN  [currentSlide |-> cur, slides |-> updateSlides(cur), dir |-> 1]

prevSlide ==
    LET cur == PrevSlideIndex(currentSlide, SlideCount)
    IN  [currentSlide |-> cur, slides |-> updateSlides(cur), dir |-> -1]

\* The arrow function stored in this.keyboardHandler.
KeyboardHandler(key) ==
    IF key = "ArrowLeft" THEN prevSlide
    ELSE IF key = "ArrowRight" THEN nextSlide
    ELSE NavState

\* What a keydown of `key` on the document does to the navigation state.
DispatchKeydown(key) ==
    IF keyboardHandler # 0 /\ keyboardHandler \in keydownListeners
    THEN KeyboardHandler(key) ELSE NavState

\* What a click on control `btn` does to the navigation state.
DispatchClick(btn) ==
    IF btn \notin clickListeners THEN NavState
    ELSE IF btn = "prev" THEN prevSlide ELSE nextSlide

Navigate(res) ==
    /\ res.dir # 0 => eventCount < MaxEvents
    /\ currentSlide' = res.currentSlide
    /\ slides' = res.slides
    /\ dirSum' = dirSum + res.dir
    /\ updated' = (updated \/ res.dir # 0)
    /\ eventCount' = IF res.dir # 0 THEN eventCount + 1 ELSE eventCount
    /\ UNCHANGED <<phase, clickListeners, keyboardHandler, keydownListeners,
                   markupVars, clientSize, vizVars, dragVars, destroyed>>

KeyDown(key) == Navigate(DispatchKeydown(key))

ClickPrev == prevBtn /\ Navigate(DispatchClick("prev"))

ClickNext == nextBtn /\ Navigate(DispatchClick("next"))

\* -------------------------------------------------------- visualizations
\* initScatterplots: the ordinals of the loop whose container is found.
InitScatterplotsShortLoop(present) ==
    {i \in 1..(NumOrdinals - 1) : i \in present}

InitScatterplots(present) == {i \in Ordinals : i \in present}

\* The request id visualization i gets when the ordinals in `created` are
\* set up in ascending order, each requesting one frame.
FirstRafId(created, i) == nextRafId + Cardinality({j \in created : j < i})

\* The handle createScatterplot returns: animationId is copied when the
\* function returns, after the first animate() call.
createScatterplot(i, id) ==
    [kind |-> "3d", animationId |-> id, handleResize |-> i]

\* The handle createCanvasPlaceholder returns: animationId is copied when
\* the function returns, after the first draw() call.
createCanvasPlaceholder(i, id) ==
    [kind |-> "2d", animationId |-> id, handleResize |-> i]

\* init(): the click bindings are made only when both controls are found.
InitClickListeners == IF prevBtn /\ nextBtn THEN {"prev", "next"} ELSE {}

\* new FeaturedWorkCarousel() in the DOMContentLoaded listener.
DOMContentLoaded ==
    /\ phase = "loading"
    /\ phase' = "constructed"
    /\ currentSlide' = 0
    /\ clickListeners' = InitClickListeners
    /\ keyboardHandler' = 1
    /\ keydownListeners' = keydownListeners \cup {1}
    /\ LET created == InitScatterplots(containers)
       IN  /\ scatterplots' =
                [i \in created |->
                    IF threeDefined
                    THEN createScatterplot(i, FirstRafId(created, i))
                    ELSE createCanvasPlaceholder(i, FirstRafId(created, i))]
           /\ animationId' =
                [i \in Ordinals |->
                    IF i \in created THEN FirstRafId(created, i)
                    ELSE animationId[i]]
           /\ rafCallbacks' = rafCallbacks \cup
                {[id |-> FirstRafId(created, i), owner |-> i] : i \in created}
           /\ nextRafId' = nextRafId + Cardinality(created)
           /\ rotation' =
                [i \in Ordinals |->
                    IF i \in created /\ ~threeDefined
                    THEN rotation[i] + Rot2DStep ELSE rotation[i]]
           /\ meshRotation' =
                [i \in Ordinals |->
                    IF i \in created /\ threeDefined
                    THEN [x |-> meshRotation[i].x + RotStepX,
                          y |-> meshRotation[i].y + RotStepY]
                    ELSE meshRotation[i]]
           /\ surface' =
                [i \in Ordinals |->
                    IF i \in created THEN clientSize[i] ELSE surface[i]]
           /\ cameraAspect' =
                [i \in Ordinals |->
                    IF i \in created /\ threeDefined
                    THEN Quotient(clientSize[i].w, clientSize[i].h)
                    ELSE cameraAspect[i]]
           /\ resizeListeners' = resizeListeners \cup created
           /\ mouseListeners' =
                IF threeDefined THEN mouseListeners \cup created
                ELSE mouseListeners
    /\ UNCHANGED <<slides, markupVars, clientSize, dragVars, dirSum, updated,
                   destroyed, eventCount>>

\* The pending callbacks after callback cb has run and requested id newId.
AfterFrameNoRequest(cb, newId) == rafCallbacks \ {cb}

AfterFrameTwoRequests(cb, newId) ==
    (rafCallbacks \ {cb}) \cup
        {[id |-> newId, owner |-> cb.owner], [id |-> newId + 1, owner |-> cb.owner]}

AfterFrame(cb, newId) ==
    (rafCallbacks \ {cb}) \cup {[id |-> newId, owner |-> cb.owner]}

\* The browser runs pending callback cb: animate (3D) or draw (2D).
AnimationFrame(cb) ==
    /\ cb \in rafCallbacks
    /\ eventCount < MaxEvents
    /\ eventCount' = eventCount + 1
    /\ rafCallbacks' = AfterFrame(cb, nextRafId)
    /\ nextRafId' = nextRafId + 1
    /\ animationId' = [animationId EXCEPT ![cb.owner] = nextRafId]
    /\ IF scatterplots[cb.owner].kind = "3d"
       THEN /\ meshRotation' =
                 [meshRotation EXCEPT
                    ![cb.owner] = [x |-> @.x + RotStepX, y |-> @.y + RotStepY]]
            /\ UNCHANGED rotation
       ELSE /\ rotation' = [rotation EXCEPT ![cb.owner] = @ + Rot2DStep]
            /\ UNCHANGED meshRotation
    /\ UNCHANGED <<phase, navVars, markupVars, clientSize, scatterplots,
                   surface, cameraAspect, resizeListeners, mouseListeners,
                   dragVars, destroyed>>

\* destroy(): removes the keydown handler; for every handle, cancels the
\* request whose id the handle holds and removes its resize listener.
DestroyKeepKeydown == keydownListeners

DestroyKeydown ==
    IF keyboardHandler # 0 THEN keydownListeners \ {keyboardHandler}
    ELSE keydownListeners

DestroyCancel ==
    {cb \in rafCallbacks :
        \A i \in DOMAIN scatterplots :
            scatterplots[i].animationId = 0 \/ cb.id # scatterplots[i].animationId}

DestroyResize ==
    {l \in resizeListeners :
        \A i \in DOMAIN scatterplots : l # scatterplots[i].handleResize}

Destroy ==
    /\ phase = "constructed"
    /\ keydownListeners' = DestroyKeydown
    /\ rafCallbacks' = DestroyCancel
    /\ resizeListeners' = DestroyResize
    /\ destroyed' = TRUE
    /\ UNCHANGED <<phase, slides, currentSlide, clickListeners, keyboardHandler,
                   dirSum, updated, markupVars, clientSize, scatterplots,
                   animationId, rotation, meshRotation, surface, cameraAspect,
                   nextRafId, mouseListeners, dragVars, eventCount>>

\* ----------------------------------------------------------------- resize
\* The layout gives container i a new size (no listener runs).
Layout(i, size) ==
    /\ i \in containers
    /\ eventCount < MaxEvents
    /\ size # clientSize[i]
    /\ clientSize' = [clientSize EXCEPT ![i] = size]
    /\ eventCount' = eventCount + 1
    /\ UNCHANGED <<phase, navVars, markupVars, vizVars, dragVars, destroyed>>

\* handleResize of createScatterplot: the surface and the aspect after it.
HandleResize3D(i) ==
    IF clientSize[i].w > 0 /\ clientSize[i].h > 0
    THEN [surface |-> clientSize[i],
          aspect |-> Quotient(clientSize[i].w, clientSize[i].h)]
    ELSE [surface |-> surface[i], aspect |-> cameraAspect[i]]

\* handleResize of createCanvasPlaceholder: no test of the dimensions.
HandleResize2D(i) ==
    [surface |-> clientSize[i], aspect |-> cameraAspect[i]]

HandleResize(i) ==
    IF scatterplots[i].kind = "3d" THEN HandleResize3D(i) ELSE HandleResize2D(i)

\* A resize event on window: every registered handleResize runs.
WindowResize ==
    /\ surface' =
         [i \in Ordinals |->
            IF i \in resizeListeners THEN HandleResize(i).surface
            ELSE surface[i]]
    /\ cameraAspect' =
         [i \in Ordinals |->
            IF i \in resizeListeners THEN HandleResize(i).aspect
            ELSE cameraAspect[i]]
    /\ UNCHANGED <<phase, navVars, markupVars, clientSize, scatterplots,
                   animationId, rotation, meshRotation, rafCallbacks,
                   nextRafId, resizeListeners, mouseListeners, dragVars,
                   destroyed, eventCount>>

\* ------------------------------------------------------------------ drag
MouseDown(i, p) ==
    /\ i \in mouseListeners
    /\ eventCount < MaxEvents
    /\ isDragging' = [isDragging EXCEPT ![i] = TRUE]
    /\ previousMousePosition' = [previousMousePosition EXCEPT ![i] = p]
    /\ lastWasDown' = [lastWasDown EXCEPT ![i] = TRUE]
    /\ lastPointer' = [lastPointer EXCEPT ![i] = p]
    /\ eventCount' = eventCount + 1
    /\ UNCHANGED <<phase, navVars, markupVars, clientSize, vizVars, destroyed>>

\* The mousemove listener: the rotation and the remembered position after it.
MouseMoveAlways(i, p) ==
    [rot |-> [x |-> meshRotation[i].x + (p.y - previousMousePosition[i].y) * DragScale,
              y |-> meshRotation[i].y + (p.x - previousMousePosition[i].x) * DragScale],
     prev |-> p]

MouseMoveHandler(i, p) ==
    IF isDragging[i]
    THEN [rot |-> [x |-> meshRotation[i].x
                           + (p.y - previousMousePosition[i].y) * DragScale,
                   y |-> meshRotation[i].y
                           + (p.x - previousMousePosition[i].x) * DragScale],
          prev |-> p]
    ELSE [rot |-> meshRotation[i], prev |-> previousMousePosition[i]]

MouseMove(i, p) ==
    /\ i \in mouseListeners
    /\ isDragging[i] => eventCount < MaxEvents
    /\ meshRotation' = [meshRotation EXCEPT ![i] = MouseMoveHandler(i, p).rot]
    /\ previousMousePosition' =
         [previousMousePosition EXCEPT ![i] = MouseMoveHandler(i, p).prev]
    /\ eventCount' = IF isDragging[i] THEN eventCount + 1 ELSE eventCount
    /\ lastPointer' = IF lastWasDown[i] THEN [lastPointer EXCEPT ![i] = p]
                     ELSE lastPointer
    /\ UNCHANGED <<phase, navVars, markupVars, clientSize, scatterplots,
                   animationId, rotation, surface, cameraAspect, rafCallbacks,
                   nextRafId, resizeListeners, mouseListeners, isDragging,
                   lastWasDown, destroyed>>

MouseUp(i) ==
    /\ i \in mouseListeners
    /\ isDragging' = [isDragging EXCEPT ![i] = FALSE]
    /\ lastWasDown' = [lastWasDown EXCEPT ![i] = FALSE]
    /\ UNCHANGED <<phase, navVars, markupVars, clientSize, vizVars,
                   previousMousePosition, lastPointer, eventCount, destroyed>>

MouseLeave(i) ==
    /\ i \in mouseListeners
    /\ isDragging' = [isDragging EXCEPT ![i] = FALSE]
    /\ lastWasDown' = [lastWasDown EXCEPT ![i] = FALSE]
    /\ UNCHANGED <<phase, navVars, markupVars, clientSize, vizVars,
                   previousMousePosition, lastPointer, eventCount, destroyed>>

\* --------------------------------------------------------- specifications
FullSize == [w |-> MaxDim, h |-> MaxDim]

\* The page as loaded, before the DOMContentLoaded listener has run.
Loaded ==
    /\ phase = "loading"
    /\ currentSlide = 0
    /\ clickListeners = {}
    /\ keyboardHandler = 0
    /\ keydownListeners = {}
    /\ scatterplots = <<>>
    /\ animationId = [i \in Ordinals |-> 0]
    /\ rotation = [i \in Ordinals |-> 0]
    /\ meshRotation = [i \in Ordinals |-> [x |-> 0, y |-> 0]]
    /\ surface = [i \in Ordinals |-> [w |-> 0, h |-> 0]]
    /\ cameraAspect = [i \in Ordinals |-> <<0, 0>>]
    /\ isDragging = [i \in Ordinals |-> FALSE]
    /\ previousMousePosition = [i \in Ordinals |-> [x |-> 0, y |-> 0]]
    /\ mouseListeners = {}
    /\ rafCallbacks = {}
    /\ nextRafId = 1
    /\ resizeListeners = {}
    /\ dirSum = 0
    /\ updated = FALSE
    /\ destroyed = FALSE
    /\ lastWasDown = [i \in Ordinals |-> FALSE]
    /\ lastPointer = [i \in Ordinals |-> [x |-> 0, y |-> 0]]
    /\ eventCount = 0

\* Any markup: any number of slides with any active flags, either control
\* present or absent, any containers present, THREE loaded or not.
AnyMarkup ==
    /\ \E n \in 0..MaxSlides : slides \in [0..(n - 1) -> BOOLEAN]
    /\ prevBtn \in BOOLEAN
    /\ nextBtn \in BOOLEAN
    /\ containers \in SUBSET Ordinals
    /\ threeDefined \in BOOLEAN

\* The markup of the page: MaxSlides slides of which the first is active,
\* both controls; any containers present, THREE loaded or not.
PageMarkup ==
    /\ slides = [index \in 0..(MaxSlides - 1) |-> index = 0]
    /\ prevBtn = TRUE
    /\ nextBtn = TRUE
    /\ containers \in SUBSET Ordinals
    /\ threeDefined \in BOOLEAN

Init ==
    /\ Loaded
    /\ PageMarkup
    /\ clientSize = [i \in Ordinals |-> FullSize]

Next ==
    \/ DOMContentLoaded
    \/ \E key \in Keys : KeyDown(key)
    \/ ClickPrev
    \/ ClickNext
    \/ \E cb \in rafCallbacks : AnimationFrame(cb)
    \/ WindowResize
    \/ \E i \in Ordinals, p \in Positions : MouseDown(i, p)
    \/ \E i \in Ordinals, p \in Positions : MouseMove(i, p)
    \/ \E i \in Ordinals : MouseUp(i)
    \/ \E i \in Ordinals : MouseLeave(i)
    \/ Destroy

Spec == Init /\ [][Next]_vars

InitNav ==
    /\ Loaded
    /\ AnyMarkup
    /\ clientSize = [i \in Ordinals |-> FullSize]

NextNav ==
    \/ DOMContentLoaded
    \/ \E key \in Keys : KeyDown(key)
    \/ ClickPrev
    \/ ClickNext
    \/ Destroy

SpecNav == InitNav /\ [][NextNav]_vars

\* Resizing: any containers, each of any size when the page is loaded.
InitResize ==
    /\ Loaded
    /\ PageMarkup
    /\ clientSize \in [Ordinals -> Sizes]
    /\ \A i \in Ordinals \ containers : clientSize[i] = FullSize

NextResize ==
    \/ DOMContentLoaded
    \/ \E cb \in rafCallbacks : AnimationFrame(cb)
    \/ \E i \in Ordinals, size \in Sizes : Layout(i, size)
    \/ WindowResize
    \/ Destroy

SpecResize == InitResize /\ [][NextResize]_vars

\* Dragging: the pointer events and the frames of the visualizations.
NextDrag ==
    \/ DOMContentLoaded
    \/ \E cb \in rafCallbacks : AnimationFrame(cb)
    \/ \E i \in Ordinals, p \in Positions : MouseDown(i, p)
    \/ \E i \in Ordinals, p \in Positions : MouseMove(i, p)
    \/ \E i \in Ordinals : MouseUp(i)
    \/ \E i \in Ordinals : MouseLeave(i)

SpecDrag == Init /\ [][NextDrag]_vars

\* ----------------------------------------------------------------- claims
\* The mathematical residue of a modulo n, in 0..n-1, for n >= 1.
Residue(a, n) ==
    LET m == IF a < 0 THEN 0 - a ELSE a
    IN  CHOOSE r \in 0..(n - 1) : \E q \in (0 - m - 1)..(m + 1) : a = q * n + r

ActiveSlides == {index \in DOMAIN slides : slides[index]}

\* C1: with N >= 1 slides, after each nextSlide (+1) / prevSlide (-1) call
\* exactly one slide is active, and it is the slide at index
\* (initial + sum of the directions) mod N, taken in 0..N-1 also for a
\* negative sum; the constructor's initial index is 0.
C1_ActiveIndexIsSumModN ==
    (phase = "constructed" /\ SlideCount >= 1 /\ updated) =>
        /\ Cardinality(ActiveSlides) = 1
        /\ ActiveSlides = {Residue(0 + dirSum, SlideCount)}
        /\ currentSlide = Residue(0 + dirSum, SlideCount)

\* Three slides, left from index 0: the index wraps to 2.
C1_Witness ==
    /\ phase = "constructed"
    /\ SlideCount = 3
    /\ dirSum = -1
    /\ currentSlide = 2
    /\ ActiveSlides = {2}

\* C3: before destroy(), a click on a control that is present makes the same
\* transition of the active index and the active flags as the matching arrow
\* key: previous as ArrowLeft, next as ArrowRight (stated for two slides or
\* more, where every navigation call changes the index).
C3_ClickSameAsKey ==
    (phase = "constructed" /\ ~destroyed /\ SlideCount >= 2) =>
        /\ prevBtn =>
             /\ DispatchClick("prev").currentSlide
                    = DispatchKeydown("ArrowLeft").currentSlide
             /\ DispatchClick("prev").slides = DispatchKeydown("ArrowLeft").slides
        /\ nextBtn =>
             /\ DispatchClick("next").currentSlide
                    = DispatchKeydown("ArrowRight").currentSlide
             /\ DispatchClick("next").slides = DispatchKeydown("ArrowRight").slides

\* C4: whichever containers are present, construction succeeds, the
\* visualization map has an entry for exactly the ordinals whose container
\* is present, and nextSlide / prevSlide move the index over all the slides.
C4_MapHasExactlyThePresent ==
    /\ phase = "loading" => ENABLED DOMContentLoaded
    /\ phase = "constructed" =>
         /\ DOMAIN scatterplots = containers
         /\ SlideCount >= 1 =>
              /\ nextSlide.currentSlide = Residue(currentSlide + 1, SlideCount)
              /\ prevSlide.currentSlide = Residue(currentSlide - 1, SlideCount)
              /\ nextSlide.slides = [index \in DOMAIN slides |->
                                        index = Residue(currentSlide + 1, SlideCount)]
              /\ prevSlide.slides = [index \in DOMAIN slides |->
                                        index = Residue(currentSlide - 1, SlideCount)]

\* The container of slide 2 is absent, and the carousel has been advanced
\* from slide 1 over slide 2 to slide 3.
C4_Witness ==
    /\ phase = "constructed"
    /\ containers = {1, 3}
    /\ DOMAIN scatterplots = {1, 3}
    /\ SlideCount = 3
    /\ dirSum = 2
    /\ currentSlide = 2

ArrowKeys == {"ArrowLeft", "ArrowRight"}

\* C7: construction registers exactly one keydown handler, the one kept in
\* keyboardHandler; after destroy() no keydown handler of the carousel is
\* registered, and no arrow key changes the index or an active flag; before
\* destroy() any other key leaves the index and the active flags unchanged.
C7_KeydownHandlerLifecycle ==
    /\ phase = "loading" => keydownListeners = {}
    /\ phase = "constructed" =>
         /\ keyboardHandler # 0
         /\ ~destroyed => keydownListeners = {keyboardHandler}
         /\ destroyed =>
              /\ keydownListeners = {}
              /\ \A key \in ArrowKeys :
                    /\ DispatchKeydown(key).currentSlide = currentSlide
                    /\ DispatchKeydown(key).slides = slides
         /\ \A key \in Keys \ ArrowKeys :
              /\ DispatchKeydown(key).currentSlide = currentSlide
              /\ DispatchKeydown(key).slides = slides

\* No control carries a click listener, so the index was moved by the arrow
\* keys alone; then destroy() was called.
C7_Witness ==
    /\ destroyed
    /\ clickListeners = {}
    /\ SlideCount = 3
    /\ dirSum = -1
    /\ currentSlide = 2
    /\ keydownListeners = {}

PendingOf(i) == {cb \in rafCallbacks : cb.owner = i}

\* C2: after destroy(), whenever it is called, no animation-frame callback
\* of a visualization is pending and no resize listener of a visualization
\* is registered on window.
C2_DestroyLeavesNothing ==
    destroyed => (rafCallbacks = {} /\ resizeListeners = {})

\* C5: for both strategies, a resize event delivered while the container's
\* width or height is zero leaves the surface (and the camera aspect) as
\* they were; with both dimensions positive the surface takes the
\* container's dimensions.
C5_ZeroResizeIsNoOp ==
    [][WindowResize =>
        \A i \in resizeListeners :
            IF clientSize[i].w = 0 \/ clientSize[i].h = 0
            THEN surface'[i] = surface[i] /\ cameraAspect'[i] = cameraAspect[i]
            ELSE surface'[i] = clientSize[i]]_vars

NavigationStep == (\E key \in Keys : KeyDown(key)) \/ ClickPrev \/ ClickNext

\* What belongs to visualization i alone.
VizState(i) ==
    <<animationId[i], rotation[i], meshRotation[i], surface[i], cameraAspect[i],
      isDragging[i], previousMousePosition[i], PendingOf(i)>>

\* C6: navigation never changes a visualization's pending callback, rotation
\* or surface; a frame callback of one visualization changes neither the
\* slide index, nor the active flags, nor another visualization's state;
\* before destroy() every created visualization has a callback pending.
C6_AnimationIndependent ==
    /\ [](phase = "constructed" /\ ~destroyed =>
            \A i \in DOMAIN scatterplots : PendingOf(i) # {})
    /\ [][NavigationStep =>
            /\ rafCallbacks' = rafCallbacks
            /\ scatterplots' = scatterplots
            /\ \A i \in Ordinals : VizState(i)' = VizState(i)]_vars
    /\ [][\A cb \in rafCallbacks :
            AnimationFrame(cb) =>
                /\ currentSlide' = currentSlide
                /\ slides' = slides
                /\ \A j \in Ordinals \ {cb.owner} : VizState(j)' = VizState(j)
                /\ surface'[cb.owner] = surface[cb.owner]]_vars

\* Slide 2 is the active one after a navigation call, and the visualization
\* of slide 3, which is not active, has run a frame and has the next pending.
C6_Witness ==
    /\ phase = "constructed"
    /\ ~destroyed
    /\ updated
    /\ currentSlide = 1
    /\ 3 \in DOMAIN scatterplots
    /\ animationId[3] # scatterplots[3].animationId
    /\ PendingOf(3) = {[id |-> animationId[3], owner |-> 3]}

\* C8: in the 3D strategy a mousemove turns the point cloud exactly when the
\* last of mousedown / mouseup / mouseleave on the container was a
\* mousedown; it then adds 0.01 times the horizontal delta to the y rotation
\* and 0.01 times the vertical delta to the x rotation, the deltas taken
\* from the previous mousedown or mousemove of the drag; no pointer event
\* on one container changes the rotation of another.
C8_DragRotation ==
    /\ [](\A i \in mouseListeners : isDragging[i] <=> lastWasDown[i])
    /\ [][\A i \in Ordinals, p \in Positions :
            MouseMove(i, p) =>
                /\ meshRotation'[i] =
                     IF lastWasDown[i]
                     THEN [x |-> meshRotation[i].x + 10 * (p.y - lastPointer[i].y),
                           y |-> meshRotation[i].y + 10 * (p.x - lastPointer[i].x)]
                     ELSE meshRotation[i]
                /\ \A j \in Ordinals \ {i} : meshRotation'[j] = meshRotation[j]]_vars
    /\ [][\A i \in Ordinals :
            ((\E p \in Positions : MouseDown(i, p)) \/ MouseUp(i) \/ MouseLeave(i))
                => meshRotation' = meshRotation]_vars

\* A drag on container 1 from (1, 0) to (0, 1) has turned its point cloud,
\* created at (0.002, 0.003), by 0.01 on x and -0.01 on y, while the point
\* cloud of container 2 is as created.
C8_Witness ==
    /\ {1, 2} \subseteq mouseListeners
    /\ isDragging[1]
    /\ lastPointer[1] = [x |-> 0, y |-> 1]
    /\ meshRotation[1] = [x |-> 12, y |-> -7]
    /\ meshRotation[2] = [x |-> 2, y |-> 3]

\* C9: in the 3D strategy a frame that fires during a drag (after a
\* mousedown, before the next mouseup or mouseleave) does not add the
\* per-frame increments; outside a drag a frame adds 0.002 on x and 0.003 on y.
C9_DragOverridesAutoRotation ==
    [][\A cb \in rafCallbacks :
        (AnimationFrame(cb) /\ scatterplots[cb.owner].kind = "3d") =>
            meshRotation'[cb.owner] =
                IF lastWasDown[cb.owner] THEN meshRotation[cb.owner]
                ELSE [x |-> meshRotation[cb.owner].x + 2,
                      y |-> meshRotation[cb.owner].y + 3]]_vars

\* C10: every visualization has at most one frame callback pending, and
\* there are never more visualizations, nor more resize listeners, than
\* containers in the markup, which are at most 3.
C10_OneChainPerVisualization ==
    /\ \A i \in Ordinals : Cardinality(PendingOf(i)) <= 1
    /\ \A cb \in rafCallbacks : cb.owner \in DOMAIN scatterplots
    /\ Cardinality(DOMAIN scatterplots) <= Cardinality(containers)
    /\ Cardinality(resizeListeners) <= Cardinality(containers)
    /\ Cardinality(containers) <= 3

\* Three visualizations; a navigation call, a mousedown and a frame have
\* happened, and each visualization has exactly one callback pending.
C10_Witness ==
    /\ Cardinality(DOMAIN scatterplots) = 3
    /\ updated
    /\ \E i \in Ordinals : isDragging[i]
    /\ nextRafId > 4
    /\ \A i \in Ordinals : Cardinality(PendingOf(i)) = 1

====
